---- MODULE Spec2Model ----
(***************************************************************************)
(* Model of the body-shop work-order translator (app/translate.py and the  *)
(* line-item loop of app/pdf_render.py).                                   *)
(*                                                                         *)
(* Python str values are modelled as sequences of one-character strings,   *)
(* so that str methods and regular expressions are computed character by   *)
(* character, as the interpreter does.                                     *)
(***************************************************************************)
EXTENDS Integers, Sequences, FiniteSets, TLC

VARIABLES
    phrase_in,    \* <<op, desc>> handed to the phrase generator
    phrase_out,   \* <<plain english, spanish>> or <<>> before the call
    full_text,    \* the text of all pages, joined by newlines
    pc,           \* "start", "parsed", "raised" or "rendered"
    df,           \* the line-item table _parse_rows returned
    bold_rows,    \* per table row, the renderer's is_section_header flag
    page,         \* the first page: its words and its detected tables
    hpc,          \* the step of the header extraction: "table", "bold",
                  \* "regex", "normalize" or "done"
    row_i,        \* index of the next row of the header table
    hdr,          \* the header dict
    won,          \* the strategy whose result hdr holds, "" before
    inline_in,    \* the (text, is_bold) tokens handed to the inline splitter
    inline_out    \* <<main_value, extras>> or <<>> before the call

rowVars == <<full_text, pc, df, bold_rows>>
phraseVars == <<phrase_in, phrase_out>>
headerVars == <<page, hpc, row_i, hdr, won>>
inlineVars == <<inline_in, inline_out>>

vars == <<phrase_in, phrase_out, full_text, pc, df, bold_rows,
          page, hpc, row_i, hdr, won, inline_in, inline_out>>

-----------------------------------------------------------------------------
(* Python str primitives                                                   *)

UpperSeq == <<"A","B","C","D","E","F","G","H","I","J","K","L","M","N","O","P","Q","R","S","T","U","V","W","X","Y","Z">>
LowerSeq == <<"a","b","c","d","e","f","g","h","i","j","k","l","m","n","o","p","q","r","s","t","u","v","w","x","y","z">>
DigitSeq == <<"0","1","2","3","4","5","6","7","8","9">>

Range(f) == {f[i] : i \in DOMAIN f}

Upper == Range(UpperSeq)
Lower == Range(LowerSeq) \cup {"ó"}
Digit == Range(DigitSeq)

\* characters matched by \s; no other whitespace occurs in the modelled texts
Space == {" ", "\n"}

\* characters matched by \w
WordCh == Upper \cup Lower \cup Digit \cup {"_"}

IndexIn(seq, c) == CHOOSE i \in 1..Len(seq) : seq[i] = c

ToLowerCh(c) == IF c \in Upper THEN LowerSeq[IndexIn(UpperSeq, c)] ELSE c

ToUpperCh(c) == IF c \in Range(LowerSeq) THEN UpperSeq[IndexIn(LowerSeq, c)] ELSE c

\* str.lower()
StrLower(s) == [i \in 1..Len(s) |-> ToLowerCh(s[i])]

\* str.isupper(): at least one cased character and no lower-case one
IsUpper(s) ==
    /\ \E i \in 1..Len(s) : s[i] \in Upper
    /\ \A i \in 1..Len(s) : s[i] \notin Lower

\* str.title(): a cased character is upper-cased unless it follows a cased one
StrTitle(s) ==
    [i \in 1..Len(s) |->
        IF i > 1 /\ s[i-1] \in (Upper \cup Lower)
        THEN ToLowerCh(s[i])
        ELSE ToUpperCh(s[i])]

\* sub occurs in s at index i
MatchAt(s, sub, i) ==
    /\ i >= 1
    /\ i + Len(sub) - 1 <= Len(s)
    /\ \A k \in 1..Len(sub) : s[i + k - 1] = sub[k]

\* str.startswith / str.endswith
StartsWith(s, sub) == MatchAt(s, sub, 1)
EndsWith(s, sub) == MatchAt(s, sub, Len(s) - Len(sub) + 1)

\* str.find from index i (1-based); 0 when sub does not occur
FindFrom(s, sub, i) ==
    LET hits == {j \in i..(Len(s) - Len(sub) + 1) : MatchAt(s, sub, j)}
    IN  IF hits = {} THEN 0 ELSE CHOOSE j \in hits : \A h \in hits : j <= h

\* the "in" operator on str
Contains(s, sub) == FindFrom(s, sub, 1) # 0

\* str.replace(old, new): left to right, non-overlapping (old is non-empty)
RECURSIVE Replace(_, _, _)
Replace(s, old, new) ==
    LET j == FindFrom(s, old, 1)
    IN  IF j = 0 THEN s
        ELSE SubSeq(s, 1, j - 1) \o new
                 \o Replace(SubSeq(s, j + Len(old), Len(s)), old, new)

\* str.lstrip() / str.rstrip() / str.strip()
RECURSIVE LStrip(_)
LStrip(s) == IF s # <<>> /\ Head(s) \in Space THEN LStrip(Tail(s)) ELSE s

RECURSIVE RStrip(_)
RStrip(s) ==
    IF s # <<>> /\ s[Len(s)] \in Space THEN RStrip(SubSeq(s, 1, Len(s) - 1)) ELSE s

Strip(s) == LStrip(RStrip(s))

-----------------------------------------------------------------------------
(* Translation helpers                                                     *)

SPANISH_GLOSSARY ==
    << <<<<"b","e","l","t"," ","m","o","l","d","i","n","g">>, <<"m","o","l","d","u","r","a"," ","d","e"," ","l","a"," ","v","e","n","t","a","n","a">>>>,
       <<<<"s","i","d","e"," ","m","o","l","d","i","n","g">>, <<"m","o","l","d","u","r","a"," ","l","a","t","e","r","a","l">>>>,
       <<<<"r","u","n"," ","c","h","a","n","n","e","l">>, <<"c","a","n","a","l"," ","d","e"," ","l","a"," ","v","e","n","t","a","n","a">>>>,
       <<<<"t","r","i","m"," ","p","a","n","e","l">>, <<"p","a","n","e","l"," ","i","n","t","e","r","i","o","r">>>>,
       <<<<"d","o","o","r"," ","s","h","e","l","l">>, <<"e","s","t","r","u","c","t","u","r","a"," ","d","e"," ","l","a"," ","p","u","e","r","t","a">>>>,
       <<<<"d","o","o","r"," ","g","l","a","s","s">>, <<"v","i","d","r","i","o"," ","d","e"," ","l","a"," ","p","u","e","r","t","a">>>>,
       <<<<"m","i","r","r","o","r">>, <<"e","s","p","e","j","o"," ","l","a","t","e","r","a","l">>>>,
       <<<<"w","e","a","t","h","e","r","s","t","r","i","p">>, <<"s","e","l","l","o"," ","d","e"," ","l","a"," ","p","u","e","r","t","a">>>>,
       <<<<"a","p","p","l","i","q","u","e">>, <<"m","o","l","d","u","r","a"," ","d","e","c","o","r","a","t","i","v","a">>>>,
       <<<<"d","o","o","r"," ","a","s","s","e","m","b","l","y">>, <<"e","n","s","a","m","b","l","e"," ","d","e"," ","l","a"," ","p","u","e","r","t","a">>>>,
       <<<<"a","p","e","r","t","u","r","e"," ","p","a","n","e","l">>, <<"p","a","n","e","l"," ","d","e"," ","a","p","e","r","t","u","r","a">>>> >>

\* the test "not op and desc.isupper()" of both generators
IsSectionPhrase(op, desc) == op = <<>> /\ IsUpper(desc)

plain_english(op, desc) ==
    IF IsSectionPhrase(op, desc)
    THEN <<"S","e","c","t","i","o","n",":"," ">> \o StrTitle(desc)
    ELSE
        LET d1 == Replace(Replace(desc, <<"L","T"," ">>, <<"L","e","f","t"," ">>), <<"R","T"," ">>, <<"R","i","g","h","t"," ">>)
            d == Replace(Replace(d1, <<"w","'","s","t","r","i","p">>, <<"w","e","a","t","h","e","r","s","t","r","i","p">>), <<"a","s","s","y">>, <<"a","s","s","e","m","b","l","y">>)
            op_l == StrLower(op)
        IN  IF Contains(op_l, <<"r","e","p","a","i","r">>)
            THEN <<"R","e","p","a","i","r"," ","t","h","e"," ">> \o StrLower(d) \o <<".">>
            ELSE IF Contains(op_l, <<"r","e","m","o","v","e">>) /\ Contains(op_l, <<"r","e","p","l","a","c","e">>)
            THEN <<"R","e","m","o","v","e"," ","a","n","d"," ","r","e","p","l","a","c","e"," ","t","h","e"," ">> \o StrLower(d) \o <<".">>
            ELSE IF Contains(op_l, <<"r","e","m","o","v","e">>) /\ Contains(op_l, <<"i","n","s","t","a","l","l">>)
            THEN <<"R","e","m","o","v","e"," ","a","n","d"," ","r","e","i","n","s","t","a","l","l"," ","t","h","e"," ">> \o StrLower(d) \o <<".">>
            ELSE d

\* the loop over SPANISH_GLOSSARY.items(): the value of the first key, in
\* declared order, that occurs in d_low; <<>> stands for None
GlossaryBase(d_low) ==
    LET hits == {i \in 1..Len(SPANISH_GLOSSARY) : Contains(d_low, SPANISH_GLOSSARY[i][1])}
    IN  IF hits = {} THEN <<>>
        ELSE SPANISH_GLOSSARY[CHOOSE i \in hits : \A h \in hits : i <= h][2]

\* a plausible slip: the adjective is always given the masculine ending
side_adjective_masc(side, base) == side \o <<"o">>

\* fem = any(w in base for w in [...]); adj = side + "a" if fem else side + "o"
side_adjective(side, base) ==
    LET fem == \E w \in {<<"p","u","e","r","t","a">>, <<"m","o","l","d","u","r","a">>, <<"e","s","t","r","u","c","t","u","r","a">>} : Contains(base, w)
    IN  IF fem THEN side \o <<"a">> ELSE side \o <<"o">>

spanish(op, desc) ==
    IF IsSectionPhrase(op, desc)
    THEN <<"S","e","c","c","i","ó","n",":"," ">> \o Replace(StrTitle(desc), <<" ","&"," ">>, <<" ","y"," ">>)
    ELSE
        LET side == IF StartsWith(desc, <<"L","T"," ">>) THEN <<"i","z","q","u","i","e","r","d">>
                    ELSE IF StartsWith(desc, <<"R","T"," ">>) THEN <<"d","e","r","e","c","h">>
                    ELSE <<>>
            d == IF side # <<>> THEN SubSeq(desc, 4, Len(desc)) ELSE desc
            d_low == Replace(Replace(StrLower(d), <<"w","'","s","t","r","i","p">>, <<"w","e","a","t","h","e","r","s","t","r","i","p">>),
                             <<"a","s","s","y">>, <<"d","o","o","r"," ","a","s","s","e","m","b","l","y">>)
            found == GlossaryBase(d_low)
            base0 == IF found = <<>> THEN d ELSE found
            base == IF side # <<>> THEN base0 \o <<" ">> \o side_adjective(side, base0)
                    ELSE base0
            op_l == StrLower(op)
        IN  IF Contains(op_l, <<"r","e","p","a","i","r">>)
            THEN <<"R","e","p","a","r","a","r"," ">> \o base \o <<".">>
            ELSE IF Contains(op_l, <<"r","e","m","o","v","e">>) /\ Contains(op_l, <<"r","e","p","l","a","c","e">>)
            THEN <<"R","e","t","i","r","a","r"," ","y"," ","r","e","e","m","p","l","a","z","a","r"," ">> \o base \o <<".">>
            ELSE IF Contains(op_l, <<"r","e","m","o","v","e">>) /\ Contains(op_l, <<"i","n","s","t","a","l","l">>)
            THEN <<"R","e","t","i","r","a","r"," ","y"," ","r","e","i","n","s","t","a","l","a","r"," ">> \o base \o <<".">>
            ELSE base


-----------------------------------------------------------------------------
(* Line item parsing                                                       *)

Letter == Range(UpperSeq) \cup Range(LowerSeq)

\* the character class [A-Z0-9 ,&'/.-] of the section heading pattern
HeadingCh == Upper \cup Digit \cup {" ", ",", "&", "'", "/", ".", "-"}

\* length of the longest run of characters of class cls that starts at s[i]
RECURSIVE RunLen(_, _, _)
RunLen(s, i, cls) ==
    IF i <= Len(s) /\ s[i] \in cls THEN 1 + RunLen(s, i + 1, cls) ELSE 0

\* length of the longest run of characters of class cls that ends at s[i]
RECURSIVE RunLenBack(_, _, _)
RunLenBack(s, i, cls) ==
    IF i >= 1 /\ s[i] \in cls THEN 1 + RunLenBack(s, i - 1, cls) ELSE 0

\* int() of a string of decimal digits
RECURSIVE ToInt(_)
ToInt(s) ==
    IF s = <<>> THEN 0
    ELSE 10 * ToInt(SubSeq(s, 1, Len(s) - 1)) + (IndexIn(DigitSeq, s[Len(s)]) - 1)

\* str.splitlines(); "\n" is the only line boundary in the modelled texts
RECURSIVE SplitLines(_)
SplitLines(s) ==
    LET j == FindFrom(s, <<"\n">>, 1)
    IN  IF s = <<>> THEN <<>>
        ELSE IF j = 0 THEN <<s>>
        ELSE <<SubSeq(s, 1, j - 1)>> \o SplitLines(SubSeq(s, j + 1, Len(s)))

\* "\n".join(parts)
RECURSIVE JoinLines(_)
JoinLines(parts) ==
    IF parts = <<>> THEN <<>>
    ELSE IF Len(parts) = 1 THEN parts[1]
    ELSE parts[1] \o <<"\n">> \o JoinLines(Tail(parts))

\* [l.strip() for l in full_text.splitlines() if l.strip()]
RECURSIVE StripNonBlank(_)
StripNonBlank(ls) ==
    IF ls = <<>> THEN <<>>
    ELSE IF Strip(Head(ls)) = <<>> THEN StripNonBlank(Tail(ls))
    ELSE <<Strip(Head(ls))>> \o StripNonBlank(Tail(ls))

TextLines(text) == StripNonBlank(SplitLines(text))

IsTableHeader(l) == StartsWith(l, <<"L","i","n","e">>) /\ Contains(l, <<"A","s","s","i","g","n","e","d">>)

IsStopLine(l) == StartsWith(l, <<"S","u","b","t","o","t","a","l","s">>) \/ StartsWith(l, <<"G","r","a","n","d"," ","T","o","t","a","l">>)

\* index (1-based) of the first line the row loop looks at: the line after the
\* first table header line, or the first line when there is none
StartIdx(lines) ==
    LET hs == {i \in 1..Len(lines) : IsTableHeader(lines[i])}
    IN  IF hs = {} THEN 1 ELSE (CHOOSE i \in hs : \A h \in hs : i <= h) + 1

\* a plausible slip: the loop never breaks at a totals line
StopIdxRunsToEnd(lines) == Len(lines) + 1

\* index of the line at which the row loop breaks; Len(lines) + 1 when it
\* runs to the end
StopIdx(lines) ==
    LET ss == {i \in StartIdx(lines)..Len(lines) : IsStopLine(lines[i])}
    IN  IF ss = {} THEN Len(lines) + 1 ELSE CHOOSE i \in ss : \A h \in ss : i <= h

\* re.match(r"^(\d+)\s+([A-Z0-9 ,&'/.-]+)$", l) on a stripped line:
\* <<>> for no match, else <<group 1, group 2>>
MatchHeading(l) ==
    LET n1 == RunLen(l, 1, Digit)
        ws == RunLen(l, n1 + 1, Space)
        g2 == SubSeq(l, n1 + ws + 1, Len(l))
    IN  IF n1 >= 1 /\ ws >= 1 /\ g2 # <<>> /\ \A i \in 1..Len(g2) : g2[i] \in HeadingCh
        THEN <<SubSeq(l, 1, n1), g2>>
        ELSE <<>>

\* the tail \s+(\d+)\s+[A-Z0-9]+\s+(.*)$ of the operation row pattern, tried
\* at l[p]: <<>> for no match, else <<group 3, group 4>>
MatchRowTail(l, p) ==
    LET w1 == RunLen(l, p, Space)
        nq == RunLen(l, p + w1, Digit)
        w2 == RunLen(l, p + w1 + nq, Space)
        np == RunLen(l, p + w1 + nq + w2, Upper \cup Digit)
        w3 == RunLen(l, p + w1 + nq + w2 + np, Space)
        r0 == p + w1 + nq + w2 + np + w3
    IN  IF w1 >= 1 /\ nq >= 1 /\ w2 >= 1 /\ np >= 1 /\ w3 >= 1
        THEN <<SubSeq(l, p + w1, p + w1 + nq - 1), SubSeq(l, r0, Len(l))>>
        ELSE <<>>

\* re.match(r"^(\d+)\s+([A-Za-z ]+(?:/ [A-Za-z]+)?)\s+(\d+)\s+[A-Z0-9]+\s+(.*)$", l)
\* on a stripped line: <<>> for no match, else <<g1, g2, g3, g4>>.  Group 2 is
\* taken from the second character after the line number: where the engine
\* gives the first \s+ more blanks, group 2 loses exactly those leading
\* blanks, which the caller strips.
MatchOpRow(l) ==
    LET n1 == RunLen(l, 1, Digit)
        q == n1 + 2
        r == RunLen(l, q, Letter \cup {" "})
        e == q + r
        \* with the optional "/ word" part
        nl == RunLen(l, e + 2, Letter)
        withSlash ==
            IF r >= 1 /\ MatchAt(l, <<"/"," ">>, e) /\ nl >= 1
            THEN MatchRowTail(l, e + 2 + nl) ELSE <<>>
        \* without it: the first part gives back its last blank
        plain ==
            IF r >= 2 /\ l[e - 1] = " " THEN MatchRowTail(l, e - 1) ELSE <<>>
    IN  IF n1 = 0 \/ n1 + 1 > Len(l) \/ l[n1 + 1] \notin Space THEN <<>>
        ELSE IF withSlash # <<>>
        THEN <<SubSeq(l, 1, n1), SubSeq(l, q, e + 1 + nl), withSlash[1], withSlash[2]>>
        ELSE IF plain # <<>>
        THEN <<SubSeq(l, 1, n1), SubSeq(l, q, e - 2), plain[1], plain[2]>>
        ELSE <<>>

\* re.search(r"(\d+\.\d+)\s*$", rest): 0 for no match, else the (1-based)
\* index at which the match starts.  rest ends a stripped line, so \s* is empty.
HoursStart(rest) ==
    LET nf == RunLenBack(rest, Len(rest), Digit)
        dot == Len(rest) - nf
        ni == RunLenBack(rest, dot - 1, Digit)
    IN  IF nf >= 1 /\ dot >= 1 /\ rest[dot] = "." /\ ni >= 1 THEN dot - ni ELSE 0

\* float() of "digits.digits": <<integer part, fraction digits without
\* trailing zeros>>, which identifies the number
RECURSIVE DropTrailingZeros(_)
DropTrailingZeros(s) ==
    IF s # <<>> /\ s[Len(s)] = "0" THEN DropTrailingZeros(SubSeq(s, 1, Len(s) - 1)) ELSE s

ToFloat(s) ==
    LET dot == FindFrom(s, <<".">>, 1)
    IN  <<ToInt(SubSeq(s, 1, dot - 1)), DropTrailingZeros(SubSeq(s, dot + 1, Len(s)))>>

\* desc.split(" Body ")[0]
BeforeBody(desc) ==
    LET j == FindFrom(desc, <<" ","B","o","d","y"," ">>, 1)
    IN  IF j = 0 THEN desc ELSE SubSeq(desc, 1, j - 1)

\* if " Body " in f" {desc} ": desc = desc.split(" Body ")[0].strip()
CutBody(desc) ==
    IF Contains(<<" ">> \o desc \o <<" ">>, <<" ","B","o","d","y"," ">>) THEN Strip(BeforeBody(desc)) ELSE desc

\* re.sub(r"\bOEM\b\s*$", "", desc).strip()
StripOEM(desc) ==
    LET r == RStrip(desc)
        n == Len(r)
    IN  IF EndsWith(r, <<"O","E","M">>) /\ (n = 3 \/ r[n - 3] \notin WordCh)
        THEN Strip(SubSeq(r, 1, n - 3))
        ELSE Strip(desc)

\* the description of an operation row, from group 4 of the row pattern
CleanDescription(rest) ==
    LET hs == HoursStart(rest)
        desc == IF hs # 0 THEN Strip(SubSeq(rest, 1, hs - 1)) ELSE rest
    IN  StripOEM(CutBody(desc))

\* the dict one line appends to rows, <<>> when the line is skipped.  Qty and
\* Hours are <<>> for "" and <<value>> otherwise.  src (the index of the line
\* in lines) and via (the pattern that matched) are bookkeeping of the model,
\* not columns of the table.
RowOf(l, i) ==
    LET mh == MatchHeading(l)
        m == MatchOpRow(l)
        hs == HoursStart(m[4])
    IN  IF mh # <<>> /\ ~Contains(l, <<"R","e","p","a","i","r">>) /\ ~Contains(l, <<"R","e","m","o","v","e">>)
        THEN << [Line |-> ToInt(mh[1]), Qty |-> <<>>, Operation |-> <<>>,
                 Description |-> mh[2], Hours |-> <<>>,
                 src |-> i, via |-> "heading"] >>
        ELSE IF m = <<>> THEN <<>>
        ELSE << [Line |-> ToInt(m[1]), Qty |-> <<ToInt(m[3])>>,
                 Operation |-> Strip(m[2]),
                 Description |-> CleanDescription(m[4]),
                 Hours |-> IF hs # 0 THEN <<ToFloat(SubSeq(m[4], hs, Len(m[4])))>> ELSE <<>>,
                 src |-> i, via |-> "operation"] >>

\* the rows list when the loop over lines[start_idx:] ends
RECURSIVE CollectRows(_, _, _)
CollectRows(lines, i, stop) ==
    IF i >= stop THEN <<>>
    ELSE RowOf(lines[i], i) \o CollectRows(lines, i + 1, stop)

Rows(text) ==
    LET lines == TextLines(text)
    IN  CollectRows(lines, StartIdx(lines), StopIdx(lines))


\* DataFrame.sort_values("Line") with its default kind="quicksort", which is
\* not a stable sort: any ordering of the rows that is ascending in Line
SortedOrders(rows) ==
    {p \in Permutations(1..Len(rows)) :
        \A i, j \in 1..Len(rows) : i < j => rows[p[i]].Line <= rows[p[j]].Line}

sort_values(rows) ==
    {[i \in 1..Len(rows) |-> rows[p[i]]] : p \in SortedOrders(rows)}

\* the "Plain English" and "Spanish" columns, computed row by row
WithPhrases(row) ==
    [Line |-> row.Line, Qty |-> row.Qty, Operation |-> row.Operation,
     Description |-> row.Description, Hours |-> row.Hours,
     Plain_English |-> plain_english(row.Operation, row.Description),
     Spanish |-> spanish(row.Operation, row.Description),
     src |-> row.src, via |-> row.via]

\* the rows of the sorted frame in the order their lines have in the text
TextOrder(sorted) ==
    [i \in 1..Len(sorted) |->
        CHOOSE r \in Range(sorted) :
            Cardinality({q \in Range(sorted) : q.src < r.src}) = i - 1]

\* a plausible slip: the phrase lists are built from the rows as parsed, in
\* text order, and then assigned to the sorted frame
EnrichInTextOrder(sorted) ==
    [i \in 1..Len(sorted) |->
        [WithPhrases(sorted[i]) EXCEPT
            !.Plain_English = WithPhrases(TextOrder(sorted)[i]).Plain_English,
            !.Spanish = WithPhrases(TextOrder(sorted)[i]).Spanish]]

\* the two column assignments after sort_values and reset_index: each list
\* is built by zipping the sorted frame's columns and is assigned by position
Enrich(sorted) == [i \in 1..Len(sorted) |-> WithPhrases(sorted[i])]

\* pdf_render: is_section_header = (op.strip() == "") and desc.isupper()
is_section_header(row) ==
    Strip(row.Operation) = <<>> /\ IsUpper(row.Description)

-----------------------------------------------------------------------------
(* Python dict: a sequence of <<key, value>> pairs with distinct keys, in   *)
(* insertion order                                                         *)

DictKeys(d) == {d[i][1] : i \in 1..Len(d)}

DictHas(d, k) == k \in DictKeys(d)

\* d[k] for a key of d
DictGet(d, k) == d[CHOOSE i \in 1..Len(d) : d[i][1] = k][2]

\* d[k] = v: an existing key keeps its place and takes the new value
DictSet(d, k, v) ==
    IF DictHas(d, k)
    THEN [i \in 1..Len(d) |-> IF d[i][1] = k THEN <<k, v>> ELSE d[i]]
    ELSE Append(d, <<k, v>>)

\* del d[k]
DictDel(d, k) == SelectSeq(d, LAMBDA e : e[1] # k)

\* for k, v in items: d[k] = v
RECURSIVE DictUpdate(_, _)
DictUpdate(d, items) ==
    IF items = <<>> THEN d
    ELSE DictUpdate(DictSet(d, items[1][1], items[1][2]), Tail(items))

-----------------------------------------------------------------------------
(* Font/style helpers                                                      *)

\* " ".join(parts)
RECURSIVE JoinSp(_)
JoinSp(parts) ==
    IF parts = <<>> THEN <<>>
    ELSE IF Len(parts) = 1 THEN parts[1]
    ELSE parts[1] \o <<" ">> \o JoinSp(Tail(parts))

_is_bold_word(w) ==
    LET fontname == StrLower(w.fontname)
    IN  Contains(fontname, <<"b","o","l","d">>) \/ Contains(fontname, <<"d","e","m","i">>)
            \/ Contains(fontname, <<"b","l","a","c","k">>)

\* re.sub(r"\s+", " ", k): every run of whitespace becomes one blank
RECURSIVE CollapseSpace(_)
CollapseSpace(s) ==
    IF s = <<>> THEN <<>>
    ELSE IF Head(s) \in Space
    THEN <<" ">> \o CollapseSpace(SubSeq(s, RunLen(s, 1, Space) + 1, Len(s)))
    ELSE <<Head(s)>> \o CollapseSpace(Tail(s))

\* str.rstrip(":")
RECURSIVE RStripColon(_)
RStripColon(s) ==
    IF s # <<>> /\ s[Len(s)] = ":" THEN RStripColon(SubSeq(s, 1, Len(s) - 1)) ELSE s

_clean_key(k) == Strip(RStripColon(Strip(CollapseSpace(k))))

\* tokens are <<text, is_bold>> pairs
TokText(parts) == [i \in 1..Len(parts) |-> parts[i][1]]

\* number of tokens from tokens[k] on that are bold
RECURSIVE BoldRun(_, _)
BoldRun(tokens, k) ==
    IF k <= Len(tokens) /\ tokens[k][2] THEN 1 + BoldRun(tokens, k + 1) ELSE 0

\* a non-bold token that ends with ":"
IsKeyToken(tok) == ~tok[2] /\ EndsWith(tok[1], <<":">>)

\* number of tokens from tokens[k] on before the next non-bold ":" token
RECURSIVE UntilKey(_, _)
UntilKey(tokens, k) ==
    IF k <= Len(tokens) /\ ~IsKeyToken(tokens[k]) THEN 1 + UntilKey(tokens, k + 1) ELSE 0

\* the inner scan "while j < len(tokens)" from tokens[i]: the index of the
\* non-bold ":" token that ends the key phrase, 0 when a bold token or the end
\* of the tokens comes first
RECURSIVE KeyEnd(_, _)
KeyEnd(tokens, j) ==
    IF j > Len(tokens) \/ tokens[j][2] THEN 0
    ELSE IF EndsWith(tokens[j][1], <<":">>) THEN j
    ELSE KeyEnd(tokens, j + 1)

\* the "while i < len(tokens)" loop of _extract_inline_pairs_from_tokens:
\* <<main_value_parts, extras>> when it ends
RECURSIVE InlineLoop(_, _, _, _, _)
InlineLoop(tokens, i, in_main, main, extras) ==
    IF i > Len(tokens) THEN <<main, extras>>
    ELSE IF tokens[i][1] = <<>> THEN InlineLoop(tokens, i + 1, in_main, main, extras)
    ELSE
        LET bold == tokens[i][2]
            j == IF bold THEN 0 ELSE KeyEnd(tokens, i)
            key == _clean_key(JoinSp(TokText(SubSeq(tokens, i, j))))
            nb == BoldRun(tokens, j + 1)
            nv == IF nb > 0 THEN nb ELSE UntilKey(tokens, j + 1)
            val == Strip(JoinSp(TokText(SubSeq(tokens, j + 1, j + nv))))
        IN  IF j # 0
            THEN InlineLoop(tokens, j + 1 + nv, FALSE, main,
                            IF key # <<>> /\ val # <<>> THEN DictSet(extras, key, val)
                            ELSE extras)
            ELSE InlineLoop(tokens, i + 1, in_main,
                            IF in_main /\ bold THEN Append(main, tokens[i][1]) ELSE main,
                            extras)

\* <<main_value, extras>>
_extract_inline_pairs_from_tokens(tokens) ==
    IF tokens = <<>> THEN <<<<>>, <<>>>>
    ELSE
        LET r == InlineLoop(tokens, 1, TRUE, <<>>, <<>>)
            main_value == Strip(JoinSp(r[1]))
            fallback == Strip(JoinSp(TokText(SubSeq(tokens, 1, UntilKey(tokens, 1)))))
        IN  <<IF main_value = <<>> THEN fallback ELSE main_value, r[2]>>

-----------------------------------------------------------------------------
(* The page model: page0.words are the words of extract_words() in text    *)
(* flow order, each [text, fontname, x0, x1, top, bottom]; page0.tables    *)
(* are the tables of find_tables(), each the sequence of its cell boxes    *)
(* <<x0, top, x1, bottom>>                                                 *)

\* a <= b for sort keys <<first, second>>
KeyLE(a, b) == a[1] < b[1] \/ (a[1] = b[1] /\ a[2] <= b[2])

\* sorted(): a stable sort of <<key, item>> pairs by key
RECURSIVE InsertByKey(_, _)
InsertByKey(sorted, e) ==
    IF sorted = <<>> THEN <<e>>
    ELSE IF KeyLE(sorted[Len(sorted)][1], e[1]) THEN Append(sorted, e)
    ELSE Append(InsertByKey(SubSeq(sorted, 1, Len(sorted) - 1), e), sorted[Len(sorted)])

RECURSIVE SortByKey(_)
SortByKey(es) ==
    IF es = <<>> THEN <<>>
    ELSE InsertByKey(SortByKey(SubSeq(es, 1, Len(es) - 1)), es[Len(es)])

Items(es) == [i \in 1..Len(es) |-> es[i][2]]

\* sorted(words, key=lambda w: (w["top"], w["x0"]))
SortWords(words) ==
    Items(SortByKey([i \in 1..Len(words) |-> <<<<words[i].top, words[i].x0>>, words[i]>>]))

\* sorted(cur, key=lambda ww: ww["x0"])
SortWordsByX(words) ==
    Items(SortByKey([i \in 1..Len(words) |-> <<<<words[i].x0, 0>>, words[i]>>]))

\* sorted(t.cells, key=lambda b: (b[1], b[0]))
SortCells(cells) ==
    Items(SortByKey([i \in 1..Len(cells) |-> <<<<cells[i][2], cells[i][1]>>, cells[i]>>]))

\* sorted(cur, key=lambda bb: bb[0])
SortCellsByX(cells) ==
    Items(SortByKey([i \in 1..Len(cells) |-> <<<<cells[i][1], 0>>, cells[i]>>]))

Abs(x) == IF x < 0 THEN -x ELSE x

\* twice the pad of the calls _words_in_bbox(..., pad=3.5)
PadTimes2 == 7

Max(a, b) == IF a >= b THEN a ELSE b

\* page0.within_bbox(...).extract_words(...): the words that lie inside the
\* box; box2 holds the doubled coordinates of the padded box
WordsWithin(page0, box2) ==
    SelectSeq(page0.words,
              LAMBDA w : /\ 2 * w.x0 >= box2[1] /\ 2 * w.top >= box2[2]
                         /\ 2 * w.x1 <= box2[3] /\ 2 * w.bottom <= box2[4])

_words_in_bbox(page0, bbox, pad2) ==
    SortWords(WordsWithin(page0,
                          <<Max(0, 2 * bbox[1] - pad2), Max(0, 2 * bbox[2] - pad2),
                            2 * bbox[3] + pad2, 2 * bbox[4] + pad2>>))

\* the loop of _group_words_into_lines over the sorted words: a word joins
\* the current line while its top is within y_tol of the line's first word
RECURSIVE GroupWords(_, _, _, _)
GroupWords(words, i, cur, y_tol) ==
    IF i > Len(words)
    THEN IF cur = <<>> THEN <<>> ELSE <<SortWordsByX(cur)>>
    ELSE IF cur = <<>> \/ Abs(words[i].top - cur[1].top) <= y_tol
    THEN GroupWords(words, i + 1, Append(cur, words[i]), y_tol)
    ELSE <<SortWordsByX(cur)>> \o GroupWords(words, i + 1, <<words[i]>>, y_tol)

_group_words_into_lines(words) == GroupWords(SortWords(words), 1, <<>>, 2)

\* page0.extract_text(): the words of each visual line joined by blanks, the
\* lines joined by newlines
TextOf(words) ==
    LET lines == _group_words_into_lines(words)
    IN  JoinLines([i \in 1..Len(lines) |->
                      JoinSp([k \in 1..Len(lines[i]) |-> lines[i][k].text])])

PageText(page0) == TextOf(page0.words)

\* the flattened, lower-cased cell text of t.extract()
TableFlat(page0, t) ==
    StrLower(JoinSp([i \in 1..Len(t) |->
                        JoinSp([k \in 1..Len(_words_in_bbox(page0, t[i], 0)) |->
                                   _words_in_bbox(page0, t[i], 0)[k].text])]))

\* <<>> for None, else <<t>>: the first table that holds "ro number", else
\* the first table
_header_table_from_page(page0) ==
    LET tables == page0.tables
        hits == {i \in 1..Len(tables) : Contains(TableFlat(page0, tables[i]), <<"r","o"," ","n","u","m","b","e","r">>)}
    IN  IF tables = <<>> THEN <<>>
        ELSE IF hits # {} THEN <<tables[CHOOSE i \in hits : \A h \in hits : i <= h]>>
        ELSE <<tables[1]>>

\* the loop that clusters the sorted cell boxes into rows: a box joins the
\* current row while its top is within y_tol = 4.0 of the row's first box
RECURSIVE GroupCells(_, _, _)
GroupCells(cells, i, cur) ==
    IF i > Len(cells)
    THEN IF cur = <<>> THEN <<>> ELSE <<SortCellsByX(cur)>>
    ELSE IF cur = <<>> \/ Abs(cells[i][2] - cur[1][2]) <= 4
    THEN GroupCells(cells, i + 1, Append(cur, cells[i]))
    ELSE <<SortCellsByX(cur)>> \o GroupCells(cells, i + 1, <<cells[i]>>)

\* the rows of the header table, <<>> when the page has no table
TableRows(page0) ==
    LET t == _header_table_from_page(page0)
    IN  IF t = <<>> THEN <<>> ELSE GroupCells(SortCells(t[1]), 1, <<>>)

\* [(w["text"], _is_bold_word(w)) for w in words if w.get("text", "").strip()]
TokensOf(words) ==
    LET kept == SelectSeq(words, LAMBDA w : Strip(w.text) # <<>>)
    IN  [i \in 1..Len(kept) |-> <<kept[i].text, _is_bold_word(kept[i])>>]

\* the stores header[...] = ... that one (label cell, value cell) pair makes,
\* in order: the label with the main value, then the embedded pairs
CellPairStores(page0, kbox, vbox) ==
    LET w_k == _words_in_bbox(page0, kbox, PadTimes2)
        k == _clean_key(JoinSp([i \in 1..Len(w_k) |-> w_k[i].text]))
        r == _extract_inline_pairs_from_tokens(TokensOf(_words_in_bbox(page0, vbox, PadTimes2)))
    IN  (IF k # <<>> /\ r[1] # <<>> THEN <<<<k, r[1]>>>> ELSE <<>>) \o r[2]

\* the stores of one pass of "for row_bboxes in rows"
RowStores(page0, row_bboxes) ==
    IF Len(row_bboxes) < 2 THEN <<>>
    ELSE CellPairStores(page0, row_bboxes[1], row_bboxes[2])
             \o (IF Len(row_bboxes) >= 4
                 THEN CellPairStores(page0, row_bboxes[3], row_bboxes[4])
                 ELSE <<>>)

\* header after one pass of "for row_bboxes in rows"
StoreRow(header, items) == DictUpdate(header, items)

\* the header when the loop "for row_bboxes in rows" has run over rows[i..]
RECURSIVE TableLoop(_, _, _, _)
TableLoop(page0, rows, i, header) ==
    IF i > Len(rows) THEN header
    ELSE TableLoop(page0, rows, i + 1, StoreRow(header, RowStores(page0, rows[i])))

_extract_header_from_top_box_table(page0) == TableLoop(page0, TableRows(page0), 1, <<>>)

\* top of the first word "Line", else 220
HeaderBottom(words) ==
    LET ls == {i \in 1..Len(words) : words[i].text = <<"L","i","n","e">>}
    IN  IF ls = {} THEN 220 ELSE words[CHOOSE i \in ls : \A h \in ls : i <= h].top

\* the "while i < len(tokens)" loop of _extract_header_from_bold_lines over
\* the tokens of one line
RECURSIVE BoldLineLoop(_, _, _)
BoldLineLoop(tokens, i, header) ==
    IF i > Len(tokens) THEN header
    ELSE IF IsKeyToken(tokens[i])
    THEN
        LET key == _clean_key(tokens[i][1])
            nb == BoldRun(tokens, i + 1)
            nv == IF nb > 0 THEN nb ELSE UntilKey(tokens, i + 1)
            val == Strip(JoinSp(TokText(SubSeq(tokens, i + 1, i + nv))))
        IN  BoldLineLoop(tokens, i + 1 + nv,
                         IF key # <<>> /\ val # <<>> /\ ~DictHas(header, key)
                         THEN DictSet(header, key, val) ELSE header)
    ELSE BoldLineLoop(tokens, i + 1, header)

RECURSIVE BoldLines(_, _, _)
BoldLines(lines, n, header) ==
    IF n > Len(lines) THEN header
    ELSE BoldLines(lines, n + 1,
                   BoldLineLoop([i \in 1..Len(TokensOf(lines[n])) |->
                                    <<Strip(TokensOf(lines[n])[i][1]), TokensOf(lines[n])[i][2]>>],
                                1, header))

_extract_header_from_bold_lines(page0) ==
    LET words == page0.words
        above == SelectSeq(words, LAMBDA w : w.top < HeaderBottom(words))
    IN  IF words = <<>> THEN <<>>
        ELSE BoldLines(_group_words_into_lines(above), 1, <<>>)

-----------------------------------------------------------------------------
(* Header extraction: regex strategy and key normalization                 *)

\* every character but the newline, which "." does not match
Dot(text) == Range(text) \ {"\n"}

\* the (1-based) indexes at which label occurs in text
Occurrences(text, label) == {i \in 1..Len(text) : MatchAt(text, label, i)}

\* the attempts of re.search for  label \s* (group)...: the label at index i,
\* then \s* taking k characters; the engine tries i ascending and, for one
\* i, k descending
Attempts(text, label) ==
    {a \in Occurrences(text, label) \X (0..Len(text)) :
        a[2] <= RunLen(text, a[1] + Len(label), Space)}

Earlier(a, b) == a[1] < b[1] \/ (a[1] = b[1] /\ a[2] >= b[2])

\* index of the first character of the group at attempt a
GroupStart(label, a) == a[1] + Len(label) + a[2]

\* the group captured at the first attempt whose group is not empty,
\* stripped; "" when there is none.  len[a] is the length of the group that
\* attempt a can capture.
Grab(text, label, len) ==
    LET ok == {a \in Attempts(text, label) : len[a] > 0}
        a == CHOOSE x \in ok : \A y \in ok : Earlier(x, y)
        start == GroupStart(label, a)
    IN  IF ok = {} THEN <<>> ELSE Strip(SubSeq(text, start, start + len[a] - 1))

\* grab(r"label\s*(cls+)")
GrabClass(text, label, cls) ==
    Grab(text, label,
         [a \in Attempts(text, label) |-> RunLen(text, GroupStart(label, a), cls)])

\* grab(r"label\s*(\d{4})")
GrabYear(text, label) ==
    Grab(text, label,
         [a \in Attempts(text, label) |->
             IF RunLen(text, GroupStart(label, a), Digit) >= 4 THEN 4 ELSE 0])

\* $ without re.MULTILINE: the end of the text, or just before a final newline
AtEnd(text, p) == p = Len(text) + 1 \/ (p = Len(text) /\ text[p] = "\n")

\* grab(r"label\s*(.+?)(?:stop|$)"): the shortest run of "." characters that
\* is followed by stop or by the end of the text
GrabLazy(text, label, stop) ==
    Grab(text, label,
         [a \in Attempts(text, label) |->
             LET start == GroupStart(label, a)
                 run == RunLen(text, start, Dot(text))
                 ns == {n \in 1..run :
                           MatchAt(text, stop, start + n) \/ AtEnd(text, start + n)}
             IN  IF ns = {} THEN 0 ELSE CHOOSE n \in ns : \A m \in ns : n <= m])

\* grab(r"label\s*(.+)")
GrabRest(text, label) ==
    Grab(text, label,
         [a \in Attempts(text, label) |-> RunLen(text, GroupStart(label, a), Dot(text))])

\* the keys of the dict literal that _extract_header_regex returns
RegexKeys ==
    << <<"R","O"," ","N","u","m","b","e","r">>, <<"O","w","n","e","r">>, <<"Y","e","a","r">>, <<"E","x","t","e","r","i","o","r"," ","C","o","l","o","r">>, <<"M","a","k","e">>, <<"V","e","h","i","c","l","e"," ","I","n">>,
       <<"V","e","h","i","c","l","e"," ","O","u","t">>, <<"M","o","d","e","l">>, <<"M","i","l","e","a","g","e"," ","I","n">>, <<"E","s","t","i","m","a","t","o","r">>, <<"B","o","d","y"," ","S","t","y","l","e">>,
       <<"I","n","s","u","r","a","n","c","e">>, <<"V","I","N">>, <<"J","o","b"," ","N","u","m","b","e","r">> >>

\* the grab(...) values of that dict literal, in the same order
GrabAll(page_text) ==
    << GrabClass(page_text, <<"R","O"," ","N","u","m","b","e","r",":">>, Digit),
       GrabClass(page_text, <<"O","w","n","e","r",":">>, Upper \cup {" ", ","}),
       GrabYear(page_text, <<"Y","e","a","r",":">>),
       GrabClass(page_text, <<"E","x","t","e","r","i","o","r"," ","C","o","l","o","r",":">>, Upper),
       GrabClass(page_text, <<"M","a","k","e",":">>, Upper),
       GrabClass(page_text, <<"V","e","h","i","c","l","e"," ","I","n",":">>, Digit \cup {"/"}),
       GrabClass(page_text, <<"V","e","h","i","c","l","e"," ","O","u","t",":">>, Digit \cup {"/"}),
       GrabLazy(page_text, <<"M","o","d","e","l",":">>, <<"V","e","h","i","c","l","e"," ","O","u","t",":">>),
       GrabClass(page_text, <<"M","i","l","e","a","g","e"," ","I","n",":">>, Digit),
       GrabLazy(page_text, <<"E","s","t","i","m","a","t","o","r",":">>, <<"I","n","s","u","r","a","n","c","e",":">>),
       GrabLazy(page_text, <<"B","o","d","y"," ","S","t","y","l","e",":">>, <<"V","I","N",":">>),
       GrabRest(page_text, <<"I","n","s","u","r","a","n","c","e",":">>),
       GrabClass(page_text, <<"V","I","N",":">>, Upper \cup Digit),
       GrabRest(page_text, <<"J","o","b"," ","N","u","m","b","e","r",":">>) >>

\* a plausible variant: only the fields whose pattern matched are returned
extract_header_regex_found(page_text) ==
    SelectSeq([i \in 1..Len(RegexKeys) |-> <<RegexKeys[i], GrabAll(page_text)[i]>>],
              LAMBDA e : e[2] # <<>>)

\* every key is present; the value of an unmatched pattern is ""
_extract_header_regex(page_text) ==
    [i \in 1..Len(RegexKeys) |-> <<RegexKeys[i], GrabAll(page_text)[i]>>]

\* the alias table of _normalize_header_keys
mapping ==
    << <<<<"R","O","#">>, <<"R","O"," ","N","u","m","b","e","r">>>>,
       <<<<"R","O">>, <<"R","O"," ","N","u","m","b","e","r">>>>,
       <<<<"E","x","t","e","r","i","o","r">>, <<"E","x","t","e","r","i","o","r"," ","C","o","l","o","r">>>>,
       <<<<"E","x","t","e","r","i","o","r","C","o","l","o","r">>, <<"E","x","t","e","r","i","o","r"," ","C","o","l","o","r">>>>,
       <<<<"J","o","b","N","u","m","b","e","r">>, <<"J","o","b"," ","N","u","m","b","e","r">>>>,
       <<<<"V","e","h","i","c","l","e","I","n">>, <<"V","e","h","i","c","l","e"," ","I","n">>>>,
       <<<<"V","e","h","i","c","l","e","O","u","t">>, <<"V","e","h","i","c","l","e"," ","O","u","t">>>>,
       <<<<"M","i","l","e","a","g","e">>, <<"M","i","l","e","a","g","e"," ","I","n">>>> >>

\* the loop "for k, v in list(out.items())" over the snapshot items
RECURSIVE NormalizeLoop(_, _)
NormalizeLoop(out, items) ==
    IF items = <<>> THEN out
    ELSE
        LET k == items[1][1]
            v == items[1][2]
            kk == _clean_key(k)
        IN  IF DictHas(mapping, kk)
            THEN NormalizeLoop(DictDel(DictSet(out, DictGet(mapping, kk), v), k), Tail(items))
            ELSE IF kk # k
            THEN NormalizeLoop(DictDel(DictSet(out, kk, v), k), Tail(items))
            ELSE NormalizeLoop(out, Tail(items))

\* a plausible slip: the keys are returned as the strategy stored them
keys_as_stored(header) == header

_normalize_header_keys(header) == NormalizeLoop(header, header)

-----------------------------------------------------------------------------
(* _parse_rows on one document text, then the renderer's row loop          *)

MaxLines == 3

CorpusLines ==
    { <<"L","i","n","e"," ","O","p","e","r"," ","A","s","s","i","g","n","e","d">>,
      <<"S","u","b","t","o","t","a","l","s"," ","3",".","0","0">>,
      <<"G","r","a","n","d"," ","T","o","t","a","l"," ","9",".","5","0">>,
      <<" "," ","1"," ","F","R","O","N","T"," ","D","O","O","R">>,
      <<"1","2"," ","3","4","5">>,
      <<"1","4"," ","R","e","p","a","i","r"," ","1"," ","D","P","5","Z","1","6","2","2","7"," ","L","T"," ","D","o","o","r"," ","S","h","e","l","l"," ","B","o","d","y"," ","O","E","M"," ","1",".","5","0">>,
      <<"1","4"," ","R","e","p","a","i","r"," ","1"," ","D","P","5","Z","1","6","2","2","7"," ","L","T"," ","D","o","o","r"," ","S","h","e","l","l"," ","B","o","d","y"," ","1",".","5","0">>,
      <<"2"," ","R","e","m","o","v","e"," ","/"," ","R","e","p","l","a","c","e"," ","1"," ","A","B","1","2"," ","L","T"," ","B","e","l","t"," ","M","o","l","d","i","n","g"," ","O","E","M"," ","0",".","3","0">>,
      <<"E","s","t","i","m","a","t","e"," ","n","o","t","e","s">>,
      <<"7"," "," "," ","3"," ","K","9"," ","D","O","O","R"," ","(","L","T",")">>,
      <<" ">> }

Texts == UNION {[1..k -> CorpusLines] : k \in 0..MaxLines}

\* the variables of the parts a specification does not exercise
NoPhrase == phrase_in = <<>> /\ phrase_out = <<>>

NoRows == full_text = <<>> /\ pc = "idle" /\ df = <<>> /\ bold_rows = <<>>

NoHeader ==
    /\ page = [words |-> <<>>, tables |-> <<>>]
    /\ hpc = "idle"
    /\ row_i = 1
    /\ hdr = <<>>
    /\ won = ""

NoInline == inline_in = <<>> /\ inline_out = <<>>

InitRows ==
    /\ \E ls \in Texts : full_text = JoinLines(ls)
    /\ pc = "start"
    /\ df = <<>>
    /\ bold_rows = <<>>
    /\ NoPhrase
    /\ NoHeader
    /\ NoInline

\* _parse_rows(full_text).  With no row collected, pd.DataFrame([]) has no
\* "Line" column and sort_values("Line") raises KeyError.
ParseRows ==
    /\ pc = "start"
    /\ LET rows == Rows(full_text)
       IN  IF rows = <<>>
           THEN /\ pc' = "raised"
                /\ df' = df
           ELSE /\ pc' = "parsed"
                /\ \E sorted \in sort_values(rows) :
                       df' = Enrich(sorted)
    /\ UNCHANGED <<full_text, bold_rows, phraseVars, headerVars, inlineVars>>

\* the loop "for _, row in df.iterrows()" of render_translation_pdf_bytes
RenderRows ==
    /\ pc = "parsed"
    /\ bold_rows' = [i \in 1..Len(df) |-> is_section_header(df[i])]
    /\ pc' = "rendered"
    /\ UNCHANGED <<full_text, df, phraseVars, headerVars, inlineVars>>

NextRows == ParseRows \/ RenderRows

SpecRows == InitRows /\ [][NextRows]_vars

-----------------------------------------------------------------------------
(* The header extraction of extract_workorder_from_pdf_bytes on one page   *)

MaxPairs == 2

\* label cells and value cells of the modelled documents, as <<text, bold>>
LabelCorpus ==
    << << <<<<"O","w","n","e","r",":">>, FALSE>> >>,
       << <<<<"R","O">>, FALSE>>, <<<<"N","u","m","b","e","r",":">>, FALSE>> >>,
       << <<<<"R","O","#",":">>, FALSE>> >>,
       << <<<<"P","h","o","n","e",":">>, FALSE>> >> >>

ValueCorpus ==
    << << <<<<"S","M","I","T","H">>, TRUE>> >>,
       << <<<<"1","2","3","4","5">>, FALSE>> >>,
       << <<<<"S","M","I","T","H">>, TRUE>>, <<<<"Y","e","a","r",":">>, FALSE>>, <<<<"2","0","2","0">>, TRUE>> >>,
       << <<<<"5","5","5">>, TRUE>>, <<<<"O","w","n","e","r",":">>, FALSE>>, <<<<"J","O","N","E","S">>, TRUE>> >>,
       << >> >>

\* the <<label, value>> pairs of the modelled documents
PairCorpus ==
    { <<LabelCorpus[p[1]], ValueCorpus[p[2]]>> :
        p \in { <<1, 1>>, <<1, 2>>, <<1, 4>>, <<2, 2>>, <<2, 3>>,
                <<3, 1>>, <<3, 2>>, <<4, 1>>, <<4, 2>>, <<4, 5>> } }

\* how the pairs are laid out: plain lines without a table ("none"), the
\* same below the 220 cut-off ("below"), the same with the line item table's
\* "Line" word after the first pair ("lined"), a ruled table with one pair
\* per row under a banner cell ("rows"), with two pairs per row ("wide"), or
\* two ruled tables ("split")
Layouts == {"none", "below", "lined", "rows", "wide", "split"}

PairSeqs == UNION {[1..n -> PairCorpus] : n \in 0..MaxPairs}

FontOf(bold) == IF bold THEN <<"H","e","l","v","e","t","i","c","a","-","B","o","l","d">> ELSE <<"H","e","l","v","e","t","i","c","a">>

\* the k-th word of a cell or line whose first word starts at x, on the text
\* line with the given top
WordAt(tok, k, x, top) ==
    [text |-> tok[1], fontname |-> FontOf(tok[2]),
     x0 |-> x + 45 * (k - 1), x1 |-> x + 45 * (k - 1) + 40,
     top |-> top, bottom |-> top + 8]

\* left edge and top of the label cell of the i-th pair
CellX(layout, i) == IF layout = "wide" THEN 400 * ((i - 1) % 2) ELSE 0

CellTop(layout, i) ==
    CASE layout = "wide" -> 20 * ((i + 1) \div 2) + 2 * ((i - 1) % 2)
      [] layout = "below" -> 300 + 20 * i
      [] OTHER -> 20 * i

PairWords(layout, pair, i) ==
    LET x == CellX(layout, i)
        top == CellTop(layout, i) + 6
    IN  [k \in 1..Len(pair[1]) |-> WordAt(pair[1][k], k, x + 5, top)]
            \o [k \in 1..Len(pair[2]) |-> WordAt(pair[2][k], k, x + 105, top)]
            \o (IF layout = "lined" /\ i = 1
                THEN <<WordAt(<<<<"L","i","n","e">>, TRUE>>, 1, 5, 30)>> ELSE <<>>)

PairCells(layout, i) ==
    LET x == CellX(layout, i)
        top == CellTop(layout, i)
    IN  << <<x, top, x + 100, top + 20>>, <<x + 100, top, x + 350, top + 20>> >>

RECURSIVE Flatten(_)
Flatten(ss) == IF ss = <<>> THEN <<>> ELSE Head(ss) \o Flatten(Tail(ss))

BuildPage(layout, pairs) ==
    LET n == Len(pairs)
        cells == [i \in 1..n |-> PairCells(layout, i)]
        banner == << <<0, 0, 350, 18>> >>
    IN  [words |-> Flatten([i \in 1..n |-> PairWords(layout, pairs[i], i)]),
         tables |->
            IF n = 0 \/ layout \in {"none", "below", "lined"} THEN <<>>
            ELSE IF layout = "split"
            THEN <<cells[1]>> \o (IF n > 1 THEN <<Flatten(Tail(cells))>> ELSE <<>>)
            ELSE IF layout = "rows" THEN <<banner \o Flatten(cells)>>
            ELSE <<Flatten(cells)>>]

InitHeader ==
    /\ \E layout \in Layouts, pairs \in PairSeqs : page = BuildPage(layout, pairs)
    /\ hpc = "table"
    /\ row_i = 1
    /\ hdr = <<>>
    /\ won = ""
    /\ NoPhrase
    /\ NoRows
    /\ NoInline

\* Strategy 1, one pass of "for row_bboxes in rows"
TableRow ==
    /\ hpc = "table"
    /\ row_i <= Len(TableRows(page))
    /\ hdr' = StoreRow(hdr, RowStores(page, TableRows(page)[row_i]))
    /\ row_i' = row_i + 1
    /\ UNCHANGED <<page, hpc, won, rowVars, phraseVars, inlineVars>>

\* Strategy 1 returns: "if not header" sends an empty result to strategy 2
TableReturn ==
    /\ hpc = "table"
    /\ row_i > Len(TableRows(page))
    /\ hpc' = IF hdr = <<>> THEN "bold" ELSE "normalize"
    /\ won' = IF hdr = <<>> THEN won ELSE "table"
    /\ UNCHANGED <<page, row_i, hdr, rowVars, phraseVars, inlineVars>>

\* Strategy 2; "if not header" sends an empty result to strategy 3
BoldStrategy ==
    /\ hpc = "bold"
    /\ hdr' = _extract_header_from_bold_lines(page)
    /\ hpc' = IF hdr' = <<>> THEN "regex" ELSE "normalize"
    /\ won' = IF hdr' = <<>> THEN won ELSE "bold"
    /\ UNCHANGED <<page, row_i, rowVars, phraseVars, inlineVars>>

\* Strategy 3
RegexStrategy ==
    /\ hpc = "regex"
    /\ hdr' = _extract_header_regex(PageText(page))
    /\ hpc' = "normalize"
    /\ won' = "regex"
    /\ UNCHANGED <<page, row_i, rowVars, phraseVars, inlineVars>>

\* header = _normalize_header_keys(header), and the header is returned
Normalize ==
    /\ hpc = "normalize"
    /\ hdr' = _normalize_header_keys(hdr)
    /\ hpc' = "done"
    /\ UNCHANGED <<page, row_i, won, rowVars, phraseVars, inlineVars>>

NextHeader == TableRow \/ TableReturn \/ BoldStrategy \/ RegexStrategy \/ Normalize

SpecHeader == InitHeader /\ [][NextHeader]_vars

-----------------------------------------------------------------------------
(* The phrase generator applied to one (operation, description) pair       *)

PhraseOps ==
    { <<>>, <<"R","e","p","a","i","r">>, <<"R","e","m","o","v","e"," ","/"," ","R","e","p","l","a","c","e">>, <<"R","e","m","o","v","e"," ","/"," ","I","n","s","t","a","l","l">>, <<"R","e","f","i","n","i","s","h">> }

PhraseSides == { <<>>, <<"L","T"," ">>, <<"R","T"," ">> }

PhraseParts ==
    { <<"B","e","l","t"," ","M","o","l","d","i","n","g">>, <<"S","i","d","e"," ","M","o","l","d","i","n","g">>, <<"R","u","n"," ","C","h","a","n","n","e","l">>, <<"T","r","i","m"," ","P","a","n","e","l">>,
      <<"D","o","o","r"," ","S","h","e","l","l">>, <<"D","o","o","r"," ","G","l","a","s","s">>, <<"M","i","r","r","o","r">>, <<"D","o","o","r"," ","w","'","s","t","r","i","p">>, <<"A","p","p","l","i","q","u","e">>,
      <<"D","o","o","r"," ","a","s","s","y">>, <<"A","p","e","r","t","u","r","e"," ","P","a","n","e","l">>, <<"F","e","n","d","e","r">>, <<"O","u","t","e","r"," ","B","e","l","t"," ","M","o","l","d","i","n","g"," ","w","'","s","t","r","i","p">>,
      <<"P","I","L","L","A","R","S",","," ","R","O","C","K","E","R"," ","&"," ","F","L","O","O","R">>, <<"F","R","O","N","T"," ","D","O","O","R">> }

InitPhrase ==
    /\ phrase_in \in {<<op, s \o p>> : op \in PhraseOps, s \in PhraseSides, p \in PhraseParts}
    /\ phrase_out = <<>>
    /\ NoRows
    /\ NoHeader
    /\ NoInline

Translate ==
    /\ phrase_out = <<>>
    /\ phrase_out' = <<plain_english(phrase_in[1], phrase_in[2]),
                       spanish(phrase_in[1], phrase_in[2])>>
    /\ UNCHANGED <<phrase_in, rowVars, headerVars, inlineVars>>

NextPhrase == Translate

SpecPhrase == InitPhrase /\ [][NextPhrase]_vars

-----------------------------------------------------------------------------
(* The inline pair splitter on one token stream                            *)

MaxTokens == 3

\* the (text, is_bold) tokens of the modelled value cells
TokenCorpus == {<<"S","M","I","T","H">>, <<"Y","e","a","r",":">>, <<"2","0","2","0">>} \X BOOLEAN

TokenStreams == UNION {[1..n -> TokenCorpus] : n \in 0..MaxTokens}

InitInline ==
    /\ inline_in \in TokenStreams
    /\ inline_out = <<>>
    /\ NoPhrase
    /\ NoRows
    /\ NoHeader

SplitInline ==
    /\ inline_out = <<>>
    /\ inline_out' = _extract_inline_pairs_from_tokens(inline_in)
    /\ UNCHANGED <<inline_in, phraseVars, rowVars, headerVars>>

NextInline == SplitInline

SpecInline == InitInline /\ [][NextInline]_vars

-----------------------------------------------------------------------------
(* Properties of the line-item parser (checked under SpecRows)             *)

Returned == pc \in {"parsed", "rendered"}

Lines == TextLines(full_text)

\* C1: the line-item parser never fails: for every full_text, also one in
\* which no line yields a row, it returns a (possibly empty) sequence of
\* line items instead of raising an error.
C1_ParserNeverFails == pc # "raised"

\* C2: the returned sequence is sorted ascending by line_number and the sort
\* is stable: two items with the same line_number keep the relative order in
\* which their lines were encountered in the input text.
C2_SortedStable ==
    Returned =>
        \A i, j \in 1..Len(df) :
            i < j => /\ df[i].Line <= df[j].Line
                     /\ (df[i].Line = df[j].Line => df[i].src < df[j].src)

\* the first table header line of the text, 0 when there is none
FirstHeader ==
    IF \E i \in 1..Len(Lines) : IsTableHeader(Lines[i])
    THEN CHOOSE i \in 1..Len(Lines) :
             IsTableHeader(Lines[i]) /\ \A h \in 1..(i - 1) : ~IsTableHeader(Lines[h])
    ELSE 0

\* C3 as stated: no returned item originates from a line before the first
\* "Line ... Assigned" line, nor from the first line of the text beginning
\* with "Subtotals" or "Grand Total", nor from any line after that one.
C3_BoundsAnyStopLine ==
    Returned =>
        \A k \in 1..Len(df) :
            /\ df[k].src > FirstHeader
            /\ ~\E t \in 1..df[k].src : IsStopLine(Lines[t])

\* C3 (amended): no returned item originates from the first "Line ...
\* Assigned" line or a line before it, nor from the first line after that
\* header line (the first line of the text when there is no header line)
\* that begins with "Subtotals" or "Grand Total", nor from any line after it.
C3_TableBounds ==
    Returned =>
        \A k \in 1..Len(df) :
            /\ df[k].src > FirstHeader
            /\ ~\E t \in (FirstHeader + 1)..df[k].src : IsStopLine(Lines[t])

\* a table is returned from the lines after the header line, and a line that
\* matches the row grammar stands before the header line
C3_Witness ==
    /\ Returned
    /\ FirstHeader > 1
    /\ \E i \in 1..(FirstHeader - 1) : RowOf(Lines[i], i) # <<>>
    /\ \E k \in 1..Len(df) : df[k].src > FirstHeader

\* C4: for every returned item, "operation is empty and description is
\* entirely upper-case" holds iff the item was produced by the section
\* heading pattern, and the phrase generator and the renderer evaluate that
\* predicate to the same answer.
C4_HeadingPredicate ==
    Returned =>
        \A k \in 1..Len(df) :
            /\ (df[k].Operation = <<>> /\ IsUpper(df[k].Description))
                   <=> (df[k].via = "heading")
            /\ IsSectionPhrase(df[k].Operation, df[k].Description)
                   <=> is_section_header(df[k])
            /\ pc = "rendered" =>
                   (bold_rows[k] <=> IsSectionPhrase(df[k].Operation, df[k].Description))

\* index of the first "Body" that stands between blanks or string ends, 0 if none
FirstBodyToken(s) ==
    LET hits == {i \in 1..Len(s) :
                    /\ MatchAt(s, <<"B","o","d","y">>, i)
                    /\ (i = 1 \/ s[i - 1] = " ")
                    /\ (i + 4 > Len(s) \/ s[i + 4] = " ")}
    IN  IF hits = {} THEN 0 ELSE CHOOSE i \in hits : \A h \in hits : i <= h

\* the description the claim describes, for group 4 of an operation row
ClaimedDescription(rest) ==
    LET hs == HoursStart(rest)
        raw == IF hs # 0 THEN Strip(SubSeq(rest, 1, hs - 1)) ELSE rest
        b == FirstBodyToken(raw)
        cut == IF b # 0 THEN Strip(SubSeq(raw, 1, b - 1)) ELSE raw
        n == Len(cut)
    IN  IF EndsWith(cut, <<"O","E","M">>) /\ (n = 3 \/ cut[n - 3] = " ")
        THEN Strip(SubSeq(cut, 1, n - 3))
        ELSE cut

\* C8: for every operation row, hours is the trailing decimal number of the
\* remainder and description is the text before it, cut at the first
\* space-delimited "Body" token (also when "Body" is the last token) and
\* with a trailing standalone "OEM" removed; the line "14 Repair 1 DP5Z16227
\* LT Door Shell Body OEM 1.50" yields 14, "Repair", 1, 1.50, "LT Door Shell".
C8_DescriptionCleaning ==
    Returned =>
        \A k \in 1..Len(df) :
            df[k].via = "operation" =>
                LET l == Lines[df[k].src]
                    rest == MatchOpRow(l)[4]
                IN  /\ df[k].Description = ClaimedDescription(rest)
                    /\ l = <<"1","4"," ","R","e","p","a","i","r"," ","1"," ","D","P","5","Z","1","6","2","2","7"," ","L","T"," ","D","o","o","r"," ","S","h","e","l","l"," ","B","o","d","y"," ","O","E","M"," ","1",".","5","0">> =>
                           /\ df[k].Line = 14
                           /\ df[k].Operation = <<"R","e","p","a","i","r">>
                           /\ df[k].Qty = <<1>>
                           /\ df[k].Hours = <<<<1, <<"5">>>>>>
                           /\ df[k].Description = <<"L","T"," ","D","o","o","r"," ","S","h","e","l","l">>

-----------------------------------------------------------------------------
(* Properties of the phrase generator (checked under SpecPhrase)           *)

\* C9: for operation "Remove / Replace" and description "LT Belt Molding"
\* the English generator returns "Remove and replace the left belt molding."
\* and the Spanish generator returns "Retirar y reemplazar moldura de la
\* ventana izquierda."
C9_FixedOperationRow ==
    (phrase_in = <<<<"R","e","m","o","v","e"," ","/"," ","R","e","p","l","a","c","e">>, <<"L","T"," ","B","e","l","t"," ","M","o","l","d","i","n","g">>>> /\ phrase_out # <<>>) =>
        /\ phrase_out[1] = <<"R","e","m","o","v","e"," ","a","n","d"," ","r","e","p","l","a","c","e"," ","t","h","e"," ","l","e","f","t"," ","b","e","l","t"," ","m","o","l","d","i","n","g",".">>
        /\ phrase_out[2] = <<"R","e","t","i","r","a","r"," ","y"," ","r","e","e","m","p","l","a","z","a","r"," ","m","o","l","d","u","r","a"," ","d","e"," ","l","a"," ","v","e","n","t","a","n","a"," ","i","z","q","u","i","e","r","d","a",".">>

\* both generators have been applied to that pair
C9_Witness ==
    /\ phrase_in = <<<<"R","e","m","o","v","e"," ","/"," ","R","e","p","l","a","c","e">>, <<"L","T"," ","B","e","l","t"," ","M","o","l","d","i","n","g">>>>
    /\ phrase_out # <<>>
    /\ Len(phrase_out[1]) > 0 /\ Len(phrase_out[2]) > 0

\* C12: every line item of the returned, sorted table carries the English
\* phrase and the Spanish phrase that the generators give for that same
\* item's operation and description, whatever order the lines had in the
\* text.
C12_PhrasesOfOwnRow ==
    Returned =>
        \A i \in 1..Len(df) :
            /\ df[i].Plain_English = plain_english(df[i].Operation, df[i].Description)
            /\ df[i].Spanish = spanish(df[i].Operation, df[i].Description)

\* a table was returned in which sorting moved a row in front of a row that
\* precedes it in the text, the two having different phrases
C12_Witness ==
    /\ pc = "parsed"
    /\ \E i, j \in 1..Len(df) :
          /\ i < j
          /\ df[i].src > df[j].src
          /\ df[i].Plain_English # df[j].Plain_English
          /\ df[i].Spanish # df[j].Spanish

-----------------------------------------------------------------------------
(* Properties of the header extraction (checked under SpecHeader)          *)

CanonicalFields ==
    { <<"R","O"," ","N","u","m","b","e","r">>, <<"O","w","n","e","r">>, <<"Y","e","a","r">>, <<"E","x","t","e","r","i","o","r"," ","C","o","l","o","r">>, <<"M","a","k","e">>, <<"M","o","d","e","l">>,
      <<"M","i","l","e","a","g","e"," ","I","n">>, <<"V","e","h","i","c","l","e"," ","I","n">>, <<"V","e","h","i","c","l","e"," ","O","u","t">>, <<"E","s","t","i","m","a","t","o","r">>, <<"B","o","d","y"," ","S","t","y","l","e">>,
      <<"I","n","s","u","r","a","n","c","e">>, <<"V","I","N">>, <<"J","o","b"," ","N","u","m","b","e","r">> }

\* no strategy finds a field on the page
NothingFound ==
    /\ _extract_header_from_top_box_table(page) = <<>>
    /\ _extract_header_from_bold_lines(page) = <<>>
    /\ \A i \in 1..Len(RegexKeys) : GrabAll(PageText(page))[i] = <<>>

C6_KeysCanonical == hpc = "done" => DictKeys(hdr) \subseteq CanonicalFields

\* C6 (amended): no key of the returned HeaderRecord is an alias spelling
\* (RO#, RO, Exterior, ExteriorColor, JobNumber, VehicleIn, VehicleOut,
\* Mileage): each alias is replaced by its canonical name; the keys belong to
\* the canonical field set when the regex strategy produced the header, while
\* a label the table-grid or bold-run strategy read that is neither canonical
\* nor an alias is kept as it is.
C6_AliasesReplaced ==
    hpc = "done" =>
        /\ DictKeys(hdr) \cap DictKeys(mapping) = {}
        /\ won = "regex" => DictKeys(hdr) \subseteq CanonicalFields

\* the table-grid strategy stored the alias label "RO#" and the returned
\* header holds its value under "RO Number"
C6_Witness ==
    /\ hpc = "done"
    /\ won = "table"
    /\ \E w \in Range(page.words) : w.text = <<"R","O","#",":">>
    /\ DictHas(hdr, <<"R","O"," ","N","u","m","b","e","r">>)

\* no word of the page is in a bold-weight font
NoBoldWord == \A w \in Range(page.words) : ~_is_bold_word(w)

\* C7: when no table is detected on page 0 and no token of page 0 is bold,
\* the returned header contains every canonical field whose "Label: value"
\* pattern occurs in the page-0 text, with the value that field's regular
\* expression captures.
C7_RegexDegradation ==
    (hpc = "done" /\ page.tables = <<>> /\ NoBoldWord) =>
        \A i \in 1..Len(RegexKeys) :
            GrabAll(PageText(page))[i] # <<>> =>
                /\ DictHas(hdr, RegexKeys[i])
                /\ DictGet(hdr, RegexKeys[i]) = GrabAll(PageText(page))[i]

\* C10: while the rows of the header table are processed in order, a key that
\* has been stored in the header mapping keeps its value: a later cell label
\* or embedded pair with the same key never overwrites it.
C10_FirstOccurrenceWins ==
    [][hpc = "table" =>
          \A k \in DictKeys(hdr) : DictHas(hdr', k) /\ DictGet(hdr', k) = DictGet(hdr, k)]_vars

-----------------------------------------------------------------------------
(* Properties of the inline pair splitter (checked under SpecInline)       *)

\* index of the first non-bold token that ends with ":", 0 when there is none
FirstLabelEnd(tokens) ==
    IF \E j \in 1..Len(tokens) : IsKeyToken(tokens[j])
    THEN CHOOSE j \in 1..Len(tokens) :
            /\ IsKeyToken(tokens[j])
            /\ \A k \in 1..(j - 1) : ~IsKeyToken(tokens[k])
    ELSE 0

\* index of the first token of the first embedded label, the non-bold run
\* that ends at FirstLabelEnd; Len(tokens) + 1 when there is no label
FirstLabelStart(tokens) ==
    LET e == FirstLabelEnd(tokens)
    IN  IF e = 0 THEN Len(tokens) + 1
        ELSE CHOOSE s \in 1..e :
                /\ \A k \in s..e : ~tokens[k][2]
                /\ s = 1 \/ tokens[s - 1][2]

\* the main value as the claim states it
ClaimedMainValue(tokens) ==
    LET before == SubSeq(tokens, 1, FirstLabelStart(tokens) - 1)
    IN  IF \E k \in 1..Len(tokens) : tokens[k][2]
        THEN JoinSp(TokText(SelectSeq(before, LAMBDA tok : tok[2])))
        ELSE JoinSp(TokText(before))

\* C11: for every stream of (text, bold) tokens, main_value is the
\* space-joined bold tokens that precede the first embedded label; only when
\* the stream holds no bold token at all is it the space-joined tokens that
\* precede the first embedded label; so it never holds a token of an embedded
\* label (the non-bold run ending in a ":" token) or of its value.
C11_MainValue ==
    inline_out # <<>> => inline_out[1] = ClaimedMainValue(inline_in)

====
